---- MODULE Spec2Model ----
(***************************************************************************)
(* zod-express: validate-then-dispatch adapters for express handlers.      *)
(*                                                                         *)
(* The model follows src/src/index.ts (CheckBody, CheckParams, CheckQuery, *)
(* Check and the four decorators) and the middleware namespace zem         *)
(* (src/unnamed/part_000, lines 386-556).  A schema is an external         *)
(* capability: safeParse either returns a success result, returns a       *)
(* failure result carrying an ordered, non-empty list of issues, or        *)
(* throws.  One route is registered per run (or one method is decorated    *)
(* once); requests are then served one after the other, each with its own  *)
(* request/response pair.                                                  *)
(***************************************************************************)
EXTENDS Integers, Sequences, FiniteSets, TLC

\* Number of requests served in one behaviour.
MaxRequests == 2

\* res.status(config?.errorCode ?? 406)
DefaultErrorCode == 406

(***************************************************************************)
(* Values                                                                  *)
(***************************************************************************)

\* Raw request values.  express delivers params and query as text; a part
\* is modelled as one raw value.
RawValues == {"42", "abc", ""}

\* JavaScript undefined, for optional fields that hold a name.
Undefined == "undefined"

\* The schemas a caller may supply.
\*   nonempty : z.string().min(1)
\*   numeric  : z.string().min(1).regex(/^\d+$/)
\*   json     : z.string().transform(s => JSON.parse(s)); the transform
\*              throws on text that is not JSON, and safeParse lets the
\*              exception through.
Schemas == {"nonempty", "numeric", "json"}

\* A key of PartinalCheck that is absent.
NoSchema == "none"

\* ValidationOptions = Partial<CheckConfig>.  An optional errorCode is a set
\* with at most one element; an absent errorHandler is Undefined.
ErrorCodes == {400}

Configs ==
  [errorCode : {{}} \cup {{c} : c \in ErrorCodes},
   errorHandler : {Undefined, "errorHandler"}]

\* PartinalCheck: each of body, params, query is a schema or absent.
PartialChecks ==
  [body : Schemas \cup {NoSchema},
   params : Schemas \cup {NoSchema},
   query : Schemas \cup {NoSchema}]

\* A plain function supplied by the user (a handler or a class method).
Fn(name) == [op |-> "function", name |-> name]

\* The handlers a caller may wrap: one that returns a value and an async one,
\* whose call returns a promise that is still pending.
Handlers == {Fn("handler"), Fn("asyncHandler")}

IsAsync(fn) == fn.name = "asyncHandler"

\* What a call of an endpoint or middleware returns, other than the result of
\* the wrapped handler: undefined, res, the result of errorHandler, or
\* nothing because an exception left the call.
Returned(kind) == [kind |-> kind, fn |-> Undefined, req |-> 0, promise |-> FALSE]

\* The value handler(req, res) returns: the handler's own result for that
\* request, a pending promise when the handler is async.
HandlerReturn(handler, req) ==
  [kind |-> "handler result", fn |-> handler.name, req |-> req.id,
   promise |-> IsAsync(handler)]

\* The result types of schema.safeParse, and the undefined that
\* schemas.body?.safeParse(...) yields when the key is absent.
ParseSuccess(data) ==
  [defined |-> TRUE, threw |-> FALSE, success |-> TRUE, data |-> data,
   error |-> [errors |-> <<>>]]

ParseFailure(issues) ==
  [defined |-> TRUE, threw |-> FALSE, success |-> FALSE, data |-> Undefined,
   error |-> [errors |-> issues]]

ParseThrows ==
  [defined |-> TRUE, threw |-> TRUE, success |-> FALSE, data |-> Undefined,
   error |-> [errors |-> <<>>]]

ParseUndefined ==
  [defined |-> FALSE, threw |-> FALSE, success |-> FALSE, data |-> Undefined,
   error |-> [errors |-> <<>>]]

\* schema.safeParse(value)
safeParse(schema, value) ==
  CASE schema = "nonempty" ->
         IF value = "" THEN ParseFailure(<<"too_small">>)
         ELSE ParseSuccess(value)
    [] schema = "numeric" ->
         IF value = "42" THEN ParseSuccess(value)
         ELSE IF value = "" THEN ParseFailure(<<"too_small", "invalid_string">>)
         ELSE ParseFailure(<<"invalid_string">>)
    [] schema = "json" ->
         IF value = "42" THEN ParseSuccess("#42")
         ELSE ParseThrows

\* schemas.part?.safeParse(value)
optSafeParse(schema, value) ==
  IF schema = NoSchema THEN ParseUndefined ELSE safeParse(schema, value)

\* ze.getError: the first message of the error list.
getError(error) == error.errors[1]

(***************************************************************************)
(* What one call of an endpoint or middleware does                          *)
(***************************************************************************)

\* Nothing has happened yet in the call.
NoEffects ==
  [parsed |-> <<>>,             \* parts whose schema was asked to parse, in order
   threw |-> FALSE,             \* an exception left the call
   handlerCalls |-> <<>>,       \* calls of the wrapped handler
   nextCalls |-> 0,             \* calls of next()
   errorHandlerCalls |-> <<>>,  \* calls of config.errorHandler
   status |-> <<>>,             \* arguments of res.status(...)
   send |-> <<>>,               \* arguments of res.send(...)
   reqWrites |-> <<>>,          \* assignments made to the request object
   returned |-> Returned(Undefined)]  \* what the call returned

\* Mutant of Throws: the exception is caught and dropped; the call returns
\* undefined.
Throws_Swallowed(parsed) ==
  [NoEffects EXCEPT !.parsed = parsed]

\* An exception of safeParse leaves the call.
Throws(parsed) ==
  [NoEffects EXCEPT !.parsed = parsed, !.threw = TRUE, !.returned = Returned("exception")]

\* Mutant of EmitError: the default response goes through
\* ze.defaultErrorHandler, which always answers 406.
EmitError_Always406(config, req, error, parsed) ==
  IF config.errorHandler # Undefined
  THEN [NoEffects EXCEPT
          !.parsed = parsed,
          !.errorHandlerCalls =
             <<[fn |-> config.errorHandler, req |-> req, res |-> req.id,
                error |-> error]>>,
          !.returned = Returned("errorHandler result")]
  ELSE [NoEffects EXCEPT
          !.parsed = parsed,
          !.status = <<DefaultErrorCode>>,
          !.send = <<error.errors[1]>>,
          !.returned = Returned("res")]

\* Mutant of EmitError: the status is set before errorHandler is looked at.
EmitError_StatusBeforeHandler(config, req, error, parsed) ==
  LET code == IF config.errorCode = {} THEN DefaultErrorCode
              ELSE CHOOSE c \in config.errorCode : TRUE
  IN  IF config.errorHandler # Undefined
      THEN [NoEffects EXCEPT
              !.parsed = parsed,
              !.status = <<code>>,
              !.errorHandlerCalls =
                 <<[fn |-> config.errorHandler, req |-> req, res |-> req.id,
                    error |-> error]>>,
              !.returned = Returned("errorHandler result")]
      ELSE [NoEffects EXCEPT
              !.parsed = parsed,
              !.status = <<code>>,
              !.send = <<error.errors[1]>>,
              !.returned = Returned("res")]

\* if (config?.errorHandler) return config.errorHandler(req, res, error);
\* return res.status(config?.errorCode ?? 406).send(ze.getError(error));
EmitError(config, req, error, parsed) ==
  IF config.errorHandler # Undefined
  THEN [NoEffects EXCEPT
          !.parsed = parsed,
          !.errorHandlerCalls =
             <<[fn |-> config.errorHandler, req |-> req, res |-> req.id,
                error |-> error]>>,
          !.returned = Returned("errorHandler result")]
  ELSE [NoEffects EXCEPT
          !.parsed = parsed,
          !.status = <<IF config.errorCode = {} THEN DefaultErrorCode
                       ELSE CHOOSE c \in config.errorCode : TRUE>>,
          !.send = <<getError(error)>>,
          !.returned = Returned("res")]

\* Mutant of CallHandler: the handler is called but its result is dropped, as
\* the middlewares do with next().
CallHandler_DropsResult(handler, req, parsed) ==
  [NoEffects EXCEPT
     !.parsed = parsed,
     !.handlerCalls = <<[fn |-> handler.name, req |-> req, res |-> req.id]>>]

\* return handler(req as any, res);
CallHandler(handler, req, parsed) ==
  [NoEffects EXCEPT
     !.parsed = parsed,
     !.handlerCalls = <<[fn |-> handler.name, req |-> req, res |-> req.id]>>,
     !.returned = HandlerReturn(handler, req)]

\* next();
CallNext(parsed) ==
  [NoEffects EXCEPT !.parsed = parsed, !.nextCalls = 1]

(***************************************************************************)
(* The wrapped endpoints (index.ts)                                        *)
(***************************************************************************)

\* Mutant of CheckBodyEndpoint: the parsed data is stored in req.body before
\* the handler is called.
CheckBodyEndpoint_AssignsData(schema, handler, config, req) ==
  LET body == safeParse(schema, req.body) IN
  IF body.threw THEN Throws(<<"body">>)
  ELSE IF ~body.success THEN EmitError(config, req, body.error, <<"body">>)
  ELSE [CallHandler(handler, [req EXCEPT !.body = body.data], <<"body">>) EXCEPT
          !.reqWrites = <<[part |-> "body", value |-> body.data]>>]

\* Mutant of CheckBodyEndpoint: the failure branch does not return, so the
\* handler runs after the error was emitted.
CheckBodyEndpoint_FallsThrough(schema, handler, config, req) ==
  LET body == safeParse(schema, req.body) IN
  IF body.threw THEN Throws(<<"body">>)
  ELSE IF ~body.success
       THEN [EmitError(config, req, body.error, <<"body">>) EXCEPT
               !.handlerCalls = <<[fn |-> handler.name, req |-> req, res |-> req.id]>>,
               !.returned = HandlerReturn(handler, req)]
  ELSE CallHandler(handler, req, <<"body">>)

\* The endpoint (req, res) => ... returned by CheckBody.
CheckBodyEndpoint(schema, handler, config, req) ==
  LET body == safeParse(schema, req.body) IN
  IF body.threw THEN Throws(<<"body">>)
  ELSE IF ~body.success THEN EmitError(config, req, body.error, <<"body">>)
  ELSE CallHandler(handler, req, <<"body">>)

\* Mutant of CheckParamsEndpoint: the parsed data is stored in req.params
\* before the handler is called.
CheckParamsEndpoint_AssignsData(schema, handler, config, req) ==
  LET params == safeParse(schema, req.params) IN
  IF params.threw THEN Throws(<<"params">>)
  ELSE IF ~params.success THEN EmitError(config, req, params.error, <<"params">>)
  ELSE [CallHandler(handler, [req EXCEPT !.params = params.data], <<"params">>) EXCEPT
          !.reqWrites = <<[part |-> "params", value |-> params.data]>>]

\* Mutant of CheckParamsEndpoint: the schema is given req.body.
CheckParamsEndpoint_ReadsBody(schema, handler, config, req) ==
  LET params == safeParse(schema, req.body) IN
  IF params.threw THEN Throws(<<"params">>)
  ELSE IF ~params.success THEN EmitError(config, req, params.error, <<"params">>)
  ELSE CallHandler(handler, req, <<"params">>)

\* The endpoint returned by CheckParams.
CheckParamsEndpoint(schema, handler, config, req) ==
  LET params == safeParse(schema, req.params) IN
  IF params.threw THEN Throws(<<"params">>)
  ELSE IF ~params.success THEN EmitError(config, req, params.error, <<"params">>)
  ELSE CallHandler(handler, req, <<"params">>)

\* Mutant of CheckQueryEndpoint: the failure branch does not return.
CheckQueryEndpoint_FallsThrough(schema, handler, config, req) ==
  LET query == safeParse(schema, req.query) IN
  IF query.threw THEN Throws(<<"query">>)
  ELSE IF ~query.success
       THEN [EmitError(config, req, query.error, <<"query">>) EXCEPT
               !.handlerCalls = <<[fn |-> handler.name, req |-> req, res |-> req.id]>>,
               !.returned = HandlerReturn(handler, req)]
  ELSE CallHandler(handler, req, <<"query">>)

\* The endpoint returned by CheckQuery.
CheckQueryEndpoint(schema, handler, config, req) ==
  LET query == safeParse(schema, req.query) IN
  IF query.threw THEN Throws(<<"query">>)
  ELSE IF ~query.success THEN EmitError(config, req, query.error, <<"query">>)
  ELSE CallHandler(handler, req, <<"query">>)

\* Mutant of ParseAll: a part is parsed only when the parts before it passed.
ParseAll_ShortCircuit(schemas, req) ==
  LET body == optSafeParse(schemas.body, req.body)
      bodyOk == ~body.defined \/ (~body.threw /\ body.success)
      params == IF bodyOk THEN optSafeParse(schemas.params, req.params)
                ELSE ParseUndefined
      paramsOk == bodyOk /\ (~params.defined \/ (~params.threw /\ params.success))
      query == IF paramsOk THEN optSafeParse(schemas.query, req.query)
               ELSE ParseUndefined
      logB == IF body.defined THEN <<"body">> ELSE <<>>
      logP == logB \o (IF params.defined THEN <<"params">> ELSE <<>>)
      logQ == logP \o (IF query.defined THEN <<"query">> ELSE <<>>)
  IN  [threw |-> body.threw \/ params.threw \/ query.threw, parsed |-> logQ,
       body |-> body, params |-> params, query |-> query]

\* The three const declarations that open the endpoint of Check (and of
\* zem.Check): every supplied schema is asked to parse, in the order body,
\* params, query, before any result is looked at; an exception ends the call
\* at the declaration that raised it.
ParseAll(schemas, req) ==
  LET body == optSafeParse(schemas.body, req.body)
      params == optSafeParse(schemas.params, req.params)
      query == optSafeParse(schemas.query, req.query)
      logB == IF body.defined THEN <<"body">> ELSE <<>>
      logP == logB \o (IF params.defined THEN <<"params">> ELSE <<>>)
      logQ == logP \o (IF query.defined THEN <<"query">> ELSE <<>>)
  IN  IF body.threw
      THEN [threw |-> TRUE, parsed |-> logB, body |-> body,
            params |-> ParseUndefined, query |-> ParseUndefined]
      ELSE IF params.threw
      THEN [threw |-> TRUE, parsed |-> logP, body |-> body,
            params |-> params, query |-> ParseUndefined]
      ELSE [threw |-> query.threw, parsed |-> logQ, body |-> body,
            params |-> params, query |-> query]

\* Mutant of CheckEndpoint: the tests read !body?.success, so an absent
\* schema enters the failure branch and body.error raises a TypeError.
CheckEndpoint_NoUndefinedGuard(schemas, handler, config, req) ==
  LET r == ParseAll(schemas, req) IN
  IF r.threw THEN Throws(r.parsed)
  ELSE IF ~r.body.success
       THEN IF r.body.defined THEN EmitError(config, req, r.body.error, r.parsed)
            ELSE Throws(r.parsed)
  ELSE IF ~r.params.success
       THEN IF r.params.defined THEN EmitError(config, req, r.params.error, r.parsed)
            ELSE Throws(r.parsed)
  ELSE IF ~r.query.success
       THEN IF r.query.defined THEN EmitError(config, req, r.query.error, r.parsed)
            ELSE Throws(r.parsed)
  ELSE CallHandler(handler, req, r.parsed)

\* Mutant of CheckEndpoint: params is examined before body.
CheckEndpoint_ParamsFirst(schemas, handler, config, req) ==
  LET r == ParseAll(schemas, req) IN
  IF r.threw THEN Throws(r.parsed)
  ELSE IF r.params.defined /\ ~r.params.success
       THEN EmitError(config, req, r.params.error, r.parsed)
  ELSE IF r.body.defined /\ ~r.body.success
       THEN EmitError(config, req, r.body.error, r.parsed)
  ELSE IF r.query.defined /\ ~r.query.success
       THEN EmitError(config, req, r.query.error, r.parsed)
  ELSE CallHandler(handler, req, r.parsed)

\* The endpoint returned by Check.
CheckEndpoint(schemas, handler, config, req) ==
  LET r == ParseAll(schemas, req) IN
  IF r.threw THEN Throws(r.parsed)
  ELSE IF r.body.defined /\ ~r.body.success
       THEN EmitError(config, req, r.body.error, r.parsed)
  ELSE IF r.params.defined /\ ~r.params.success
       THEN EmitError(config, req, r.params.error, r.parsed)
  ELSE IF r.query.defined /\ ~r.query.success
       THEN EmitError(config, req, r.query.error, r.parsed)
  ELSE CallHandler(handler, req, r.parsed)

(***************************************************************************)
(* The middlewares (namespace zem)                                         *)
(***************************************************************************)

\* Mutant of zem_BodyHandler: the failure branch does not return, so next()
\* is reached after the error was emitted.
zem_BodyHandler_NextAfterError(schema, config, req) ==
  LET body == safeParse(schema, req.body) IN
  IF body.threw THEN Throws(<<"body">>)
  ELSE IF ~body.success
       THEN [EmitError(config, req, body.error, <<"body">>) EXCEPT
               !.nextCalls = 1, !.returned = Returned(Undefined)]
  ELSE CallNext(<<"body">>)

\* The RequestHandler (req, res, next) => ... returned by zem.Body.
zem_BodyHandler(schema, config, req) ==
  LET body == safeParse(schema, req.body) IN
  IF body.threw THEN Throws(<<"body">>)
  ELSE IF ~body.success THEN EmitError(config, req, body.error, <<"body">>)
  ELSE CallNext(<<"body">>)

\* Mutant of zem_ParamsHandler: the failure branch does not return, so next()
\* is reached after the error was emitted.
zem_ParamsHandler_NextAfterError(schema, config, req) ==
  LET params == safeParse(schema, req.params) IN
  IF params.threw THEN Throws(<<"params">>)
  ELSE IF ~params.success
       THEN [EmitError(config, req, params.error, <<"params">>) EXCEPT
               !.nextCalls = 1, !.returned = Returned(Undefined)]
  ELSE CallNext(<<"params">>)

\* The RequestHandler returned by zem.Params.
zem_ParamsHandler(schema, config, req) ==
  LET params == safeParse(schema, req.params) IN
  IF params.threw THEN Throws(<<"params">>)
  ELSE IF ~params.success THEN EmitError(config, req, params.error, <<"params">>)
  ELSE CallNext(<<"params">>)

\* The RequestHandler returned by zem.Query.
zem_QueryHandler(schema, config, req) ==
  LET query == safeParse(schema, req.query) IN
  IF query.threw THEN Throws(<<"query">>)
  ELSE IF ~query.success THEN EmitError(config, req, query.error, <<"query">>)
  ELSE CallNext(<<"query">>)

\* Mutant of zem_CheckHandler: the tests read !body?.success.
zem_CheckHandler_NoUndefinedGuard(schemas, config, req) ==
  LET r == ParseAll(schemas, req) IN
  IF r.threw THEN Throws(r.parsed)
  ELSE IF ~r.body.success
       THEN IF r.body.defined THEN EmitError(config, req, r.body.error, r.parsed)
            ELSE Throws(r.parsed)
  ELSE IF ~r.params.success
       THEN IF r.params.defined THEN EmitError(config, req, r.params.error, r.parsed)
            ELSE Throws(r.parsed)
  ELSE IF ~r.query.success
       THEN IF r.query.defined THEN EmitError(config, req, r.query.error, r.parsed)
            ELSE Throws(r.parsed)
  ELSE CallNext(r.parsed)

\* The RequestHandler returned by zem.Check.
zem_CheckHandler(schemas, config, req) ==
  LET r == ParseAll(schemas, req) IN
  IF r.threw THEN Throws(r.parsed)
  ELSE IF r.body.defined /\ ~r.body.success
       THEN EmitError(config, req, r.body.error, r.parsed)
  ELSE IF r.params.defined /\ ~r.params.success
       THEN EmitError(config, req, r.params.error, r.parsed)
  ELSE IF r.query.defined /\ ~r.query.success
       THEN EmitError(config, req, r.query.error, r.parsed)
  ELSE CallNext(r.parsed)

(***************************************************************************)
(* Closures: what the factory functions return                             *)
(***************************************************************************)

NoSchemas == [body |-> NoSchema, params |-> NoSchema, query |-> NoSchema]

NoConfig == [errorCode |-> {}, errorHandler |-> Undefined]

\* A closure records the factory that made it and the arguments it captured.
Closure(op, schemas, handler, config) ==
  [op |-> op, schemas |-> schemas, handler |-> handler, config |-> config]

CheckBody(schema, handler, config) ==
  Closure("CheckBody", [NoSchemas EXCEPT !.body = schema], handler, config)

CheckParams(schema, handler, config) ==
  Closure("CheckParams", [NoSchemas EXCEPT !.params = schema], handler, config)

CheckQuery(schema, handler, config) ==
  Closure("CheckQuery", [NoSchemas EXCEPT !.query = schema], handler, config)

Check(schemas, handler, config) ==
  Closure("Check", schemas, handler, config)

zem_Body(schema, config) ==
  Closure("zem.Body", [NoSchemas EXCEPT !.body = schema], Fn(Undefined), config)

zem_Params(schema, config) ==
  Closure("zem.Params", [NoSchemas EXCEPT !.params = schema], Fn(Undefined), config)

zem_Query(schema, config) ==
  Closure("zem.Query", [NoSchemas EXCEPT !.query = schema], Fn(Undefined), config)

zem_Check(schemas, config) ==
  Closure("zem.Check", schemas, Fn(Undefined), config)

\* Calling a closure with a request runs the endpoint or middleware it holds.
Apply(c, req) ==
  CASE c.op = "CheckBody" ->
         CheckBodyEndpoint(c.schemas.body, c.handler, c.config, req)
    [] c.op = "CheckParams" ->
         CheckParamsEndpoint(c.schemas.params, c.handler, c.config, req)
    [] c.op = "CheckQuery" ->
         CheckQueryEndpoint(c.schemas.query, c.handler, c.config, req)
    [] c.op = "Check" ->
         CheckEndpoint(c.schemas, c.handler, c.config, req)
    [] c.op = "zem.Body" ->
         zem_BodyHandler(c.schemas.body, c.config, req)
    [] c.op = "zem.Params" ->
         zem_ParamsHandler(c.schemas.params, c.config, req)
    [] c.op = "zem.Query" ->
         zem_QueryHandler(c.schemas.query, c.config, req)
    [] c.op = "zem.Check" ->
         zem_CheckHandler(c.schemas, c.config, req)

(***************************************************************************)
(* State                                                                   *)
(***************************************************************************)

VARIABLES
  route,        \* the endpoint or middleware given to express, if any
  descriptor,   \* the property descriptor of the controller's method
  served,       \* requests served so far; a request's id is its number
  req,          \* the request of the latest call
  call,         \* what the latest call did (a record shaped like NoEffects)
  decoration,   \* the decorator written above the method, if any
  pairs,        \* every request/response pair served so far, with what its call did
  inflight,     \* requests whose async handler has not settled yet
  stack,        \* the middlewares of a route, in the order they were given
  chainCalls,   \* what each middleware of the stack did for the latest request
  finalCalls    \* calls of the handler that ends the stack, latest request

\* All request/response pairs and the requests in flight (overlapping calls).
isoVars == <<pairs, inflight>>

\* A route made of several middlewares and a final handler.
chainVars == <<stack, chainCalls, finalCalls>>

vars == <<route, descriptor, served, req, call, decoration, isoVars, chainVars>>

NoDecoration == [name |-> "none", schemas |-> [body |-> NoSchema, params |-> NoSchema, query |-> NoSchema],
                 config |-> [errorCode |-> {}, errorHandler |-> Undefined]]

NoRoute == [op |-> "none"]

NoRequest == [id |-> 0, body |-> "", params |-> "", query |-> ""]

Requests(id) == [id : {id}, body : RawValues, params : RawValues, query : RawValues]

Init ==
  /\ route = NoRoute
  /\ descriptor = [value |-> Fn("original")]
  /\ served = 0
  /\ req = NoRequest
  /\ call = NoEffects
  /\ decoration = NoDecoration
  /\ pairs = <<>>
  /\ inflight = {}
  /\ stack = <<>>
  /\ chainCalls = <<>>
  /\ finalCalls = <<>>

\* Nothing is registered and the method is not decorated yet.
Fresh == route.op = "none" /\ descriptor.value.op = "function" /\ stack = <<>>

\* What express (or the caller of the decorated method) invokes.
Target == IF route.op # "none" THEN route ELSE descriptor.value

(***************************************************************************)
(* Registration: app.METHOD(path, CheckBody(schema, handler, config)) etc. *)
(***************************************************************************)

Register(c) ==
  /\ Fresh
  /\ route' = c
  /\ UNCHANGED <<descriptor, served, req, call, decoration, isoVars, chainVars>>

UseCheckBody ==
  \E s \in Schemas, h \in Handlers, c \in Configs : Register(CheckBody(s, h, c))

UseCheckParams ==
  \E s \in Schemas, h \in Handlers, c \in Configs : Register(CheckParams(s, h, c))

UseCheckQuery ==
  \E s \in Schemas, h \in Handlers, c \in Configs : Register(CheckQuery(s, h, c))

UseCheck ==
  \E ss \in PartialChecks, h \in Handlers, c \in Configs : Register(Check(ss, h, c))

UseZemBody ==
  \E s \in Schemas, c \in Configs : Register(zem_Body(s, c))

UseZemParams ==
  \E s \in Schemas, c \in Configs : Register(zem_Params(s, c))

UseZemQuery ==
  \E s \in Schemas, c \in Configs : Register(zem_Query(s, c))

UseZemCheck ==
  \E ss \in PartialChecks, c \in Configs : Register(zem_Check(ss, c))

(***************************************************************************)
(* Decorators: applied once, when the class is defined                     *)
(***************************************************************************)

\* @ValidateBody(schema, config) and the like, as written above the method.
Decoration(name, schemas, config) ==
  [name |-> name, schemas |-> schemas, config |-> config]

\* const original = descriptor.value; descriptor.value = wrapped;
Decorate(wrapped) ==
  /\ Fresh
  /\ descriptor' = [descriptor EXCEPT !.value = wrapped]
  /\ UNCHANGED <<route, served, req, call, isoVars, chainVars>>

ValidateBody ==
  \E s \in Schemas, c \in Configs :
    /\ Decorate(CheckBody(s, descriptor.value, c))
    /\ decoration' = Decoration("ValidateBody", [NoSchemas EXCEPT !.body = s], c)

\* Mutant of ValidateParams: the method is wrapped with CheckBody.
ValidateParams_WrapsWithCheckBody ==
  \E s \in Schemas, c \in Configs :
    /\ Decorate(CheckBody(s, descriptor.value, c))
    /\ decoration' = Decoration("ValidateParams", [NoSchemas EXCEPT !.params = s], c)

ValidateParams ==
  \E s \in Schemas, c \in Configs :
    /\ Decorate(CheckParams(s, descriptor.value, c))
    /\ decoration' = Decoration("ValidateParams", [NoSchemas EXCEPT !.params = s], c)

ValidateQuery ==
  \E s \in Schemas, c \in Configs :
    /\ Decorate(CheckQuery(s, descriptor.value, c))
    /\ decoration' = Decoration("ValidateQuery", [NoSchemas EXCEPT !.query = s], c)

Validate ==
  \E ss \in PartialChecks, c \in Configs :
    /\ Decorate(Check(ss, descriptor.value, c))
    /\ decoration' = Decoration("Validate", ss, c)

(***************************************************************************)
(* Serving a request                                                       *)
(***************************************************************************)

\* express calls the registered closure (or the decorated method is called)
\* with a new request/response pair.
Serve(op) ==
  /\ Target.op = op
  /\ served < MaxRequests
  /\ \E r \in Requests(served + 1) :
       /\ req' = r
       /\ call' = Apply(Target, r)
  /\ served' = served + 1
  /\ UNCHANGED <<route, descriptor, decoration, isoVars, chainVars>>

CallCheckBody == Serve("CheckBody")
CallCheckParams == Serve("CheckParams")
CallCheckQuery == Serve("CheckQuery")
CallCheck == Serve("Check")
CallZemBody == Serve("zem.Body")
CallZemParams == Serve("zem.Params")
CallZemQuery == Serve("zem.Query")
CallZemCheck == Serve("zem.Check")

(***************************************************************************)
(* Overlapping calls of one endpoint or middleware                         *)
(***************************************************************************)

\* Options of the routes that serve overlapping requests.
IsoConfigs ==
  {NoConfig,
   [errorCode |-> {400}, errorHandler |-> Undefined],
   [errorCode |-> {}, errorHandler |-> "errorHandler"]}

\* Routes that serve overlapping requests: an endpoint with an async handler
\* (its call returns while the handler is still pending) or a middleware.
IsoRoutes ==
  UNION {{CheckBody(s, Fn("asyncHandler"), c),
          Check([body |-> s, params |-> "numeric", query |-> NoSchema],
                Fn("asyncHandler"), c),
          zem_Params(s, c)} : s \in Schemas, c \in IsoConfigs}

\* Requests that differ in body and params.
IsoRequests(id) == {r \in Requests(id) : r.query = "42"}

InitIso ==
  /\ route \in IsoRoutes
  /\ descriptor = [value |-> Fn("original")]
  /\ served = 0
  /\ req = NoRequest
  /\ call = NoEffects
  /\ decoration = NoDecoration
  /\ pairs = <<>>
  /\ inflight = {}
  /\ stack = <<>>
  /\ chainCalls = <<>>
  /\ finalCalls = <<>>

\* Mutant of ServeOverlapping: the parse result of the previous call is kept
\* in a variable shared by all calls and used again.
ServeOverlapping_SharedResult ==
  /\ served < MaxRequests
  /\ \E r \in IsoRequests(served + 1) :
       LET seen == IF served = 0 THEN r
                   ELSE [r EXCEPT !.body = req.body, !.params = req.params]
           e == Apply(route, seen)
       IN  /\ req' = r
           /\ call' = e
           /\ pairs' = Append(pairs, [req |-> r, call |-> e])
           /\ inflight' = IF e.returned.promise THEN inflight \cup {r.id} ELSE inflight
  /\ served' = served + 1
  /\ UNCHANGED <<route, descriptor, decoration, chainVars>>

\* express calls the endpoint with a new request/response pair while the
\* handlers of earlier requests may still be pending: the call runs to its
\* return without a suspension point, on its own req and res.
ServeOverlapping ==
  /\ served < MaxRequests
  /\ \E r \in IsoRequests(served + 1) :
       LET e == Apply(route, r)
       IN  /\ req' = r
           /\ call' = e
           /\ pairs' = Append(pairs, [req |-> r, call |-> e])
           /\ inflight' = IF e.returned.promise THEN inflight \cup {r.id} ELSE inflight
  /\ served' = served + 1
  /\ UNCHANGED <<route, descriptor, decoration, chainVars>>

\* The pending promise of an async handler settles.
Settle ==
  /\ \E id \in inflight : inflight' = inflight \ {id}
  /\ UNCHANGED <<route, descriptor, served, req, call, decoration, pairs, chainVars>>

NextIso == ServeOverlapping \/ Settle

SpecIso == InitIso /\ [][NextIso]_vars

(***************************************************************************)
(* Middlewares chained before a handler                                    *)
(***************************************************************************)

\* app.post("/", m1, m2, ..., handler): at most this many validating
\* middlewares before the handler.
MaxChain == 2

ChainConfigs == {NoConfig, [errorCode |-> {}, errorHandler |-> "errorHandler"]}

\* The validating middlewares a route is built from.
ChainMiddlewares ==
  UNION {{zem_Body("nonempty", c), zem_Body("json", c),
          zem_Params("numeric", c), zem_Params("json", c),
          zem_Query("nonempty", c)} : c \in ChainConfigs}

InitChain ==
  /\ route = NoRoute
  /\ descriptor = [value |-> Fn("original")]
  /\ served = 0
  /\ req = NoRequest
  /\ call = NoEffects
  /\ decoration = NoDecoration
  /\ pairs = <<>>
  /\ inflight = {}
  /\ stack = <<>>
  /\ chainCalls = <<>>
  /\ finalCalls = <<>>

\* One more validating middleware is given to the route, before its handler.
ChainUse ==
  /\ served = 0
  /\ Len(stack) < MaxChain
  /\ \E m \in ChainMiddlewares : stack' = Append(stack, m)
  /\ UNCHANGED <<route, descriptor, served, req, call, decoration, isoVars,
                 chainCalls, finalCalls>>

\* The middlewares from position i on run in order; the one after a
\* middleware runs only from that middleware's call of next(). A middleware
\* that returns without calling next(), or throws, ends the chain.
RECURSIVE RunChain(_, _, _)
RunChain(ms, r, i) ==
  IF i > Len(ms) THEN <<>>
  ELSE LET e == Apply(ms[i], r)
       IN  IF e.nextCalls > 0 THEN <<e>> \o RunChain(ms, r, i + 1) ELSE <<e>>

\* The handler that ends the stack runs from the last middleware's next().
RunFinal(ms, r, ran) ==
  IF Len(ran) = Len(ms) /\ ran[Len(ran)].nextCalls > 0
  THEN <<[fn |-> "handler", req |-> r, res |-> r.id]>>
  ELSE <<>>

\* A request is dispatched through the stack of the route.
ChainServe ==
  /\ stack # <<>>
  /\ served < MaxRequests
  /\ \E r \in Requests(served + 1) :
       LET ran == RunChain(stack, r, 1)
       IN  /\ req' = r
           /\ chainCalls' = ran
           /\ finalCalls' = RunFinal(stack, r, ran)
  /\ served' = served + 1
  /\ UNCHANGED <<route, descriptor, call, decoration, isoVars, stack>>

NextChain == ChainUse \/ ChainServe

SpecChain == InitChain /\ [][NextChain]_vars

Next ==
  \/ UseCheckBody \/ UseCheckParams \/ UseCheckQuery \/ UseCheck
  \/ UseZemBody \/ UseZemParams \/ UseZemQuery \/ UseZemCheck
  \/ ValidateBody \/ ValidateParams \/ ValidateQuery \/ Validate
  \/ CallCheckBody \/ CallCheckParams \/ CallCheckQuery \/ CallCheck
  \/ CallZemBody \/ CallZemParams \/ CallZemQuery \/ CallZemCheck

Spec == Init /\ [][Next]_vars

(***************************************************************************)
(* Vocabulary of the properties                                            *)
(***************************************************************************)

Parts == <<"body", "params", "query">>

WrappingOps == {"CheckBody", "CheckParams", "CheckQuery", "Check"}

MiddlewareOps == {"zem.Body", "zem.Params", "zem.Query", "zem.Check"}

\* A request has been served by the registered closure or decorated method.
Called == served > 0 /\ req.id = served

Wrapped == Called /\ Target.op \in WrappingOps

Middleware == Called /\ Target.op \in MiddlewareOps

Decorated == Called /\ descriptor.value.op \in WrappingOps

\* What the schema supplied for a part answers on the request's value of
\* that part (undefined when no schema was supplied for it).
Answer(part) == optSafeParse(Target.schemas[part], req[part])

Supplied(part) == Target.schemas[part] # NoSchema

Fails(part) == Answer(part).defined /\ ~Answer(part).threw /\ ~Answer(part).success

Satisfied(part) == ~Supplied(part) \/ (~Answer(part).threw /\ Answer(part).success)

AllSatisfied == \A i \in 1..3 : Satisfied(Parts[i])

SomePartFails == \E i \in 1..3 : Fails(Parts[i])

\* No supplied schema throws on this request.
NoFault == \A i \in 1..3 : ~Answer(Parts[i]).threw

\* The failure of the first failing part in the order body, params, query.
FirstFailing == Parts[CHOOSE i \in 1..3 : Fails(Parts[i]) /\ \A j \in 1..(i - 1) : ~Fails(Parts[j])]

FirstFailure == Answer(FirstFailing).error

\* The supplied parts, in the order body, params, query.
SuppliedParts == SelectSeq(Parts, Supplied)

HandlerInvoked == call.handlerCalls # <<>>

NextInvoked == call.nextCalls > 0

ResponseWritten == call.status # <<>> \/ call.send # <<>>

ErrorEmitted == ResponseWritten \/ call.errorHandlerCalls # <<>>

\* The one call the wrapped handler gets: the original request and its response.
TheHandlerCall == <<[fn |-> Target.handler.name, req |-> req, res |-> req.id]>>

\* The status the default error response carries under the target's options.
ConfiguredCode ==
  IF Target.config.errorCode = {} THEN DefaultErrorCode
  ELSE CHOOSE c \in Target.config.errorCode : TRUE

\* What an observer of a call sees, leaving out which request object it was.
Outcome(e) ==
  [parsed |-> e.parsed, threw |-> e.threw,
   handlers |-> [i \in 1..Len(e.handlerCalls) |-> e.handlerCalls[i].fn],
   nextCalls |-> e.nextCalls,
   failures |-> [i \in 1..Len(e.errorHandlerCalls) |-> e.errorHandlerCalls[i].error],
   status |-> e.status, send |-> e.send, returned |-> e.returned]

(***************************************************************************)
(* C1                                                                      *)
(***************************************************************************)

\* C1 (as stated): every call of an endpoint made by CheckBody, CheckParams,
\* CheckQuery or Check either invokes the wrapped handler or emits an error,
\* never both and never neither.
C1_ExactlyOneAlways ==
  Wrapped => (HandlerInvoked /\ ~ErrorEmitted) \/ (~HandlerInvoked /\ ErrorEmitted)

\* C1 (amended): handler and error emission never both happen; exactly one of
\* them happens unless a schema throws while parsing, and then neither does.
C1_ExactlyOneUnlessFault ==
  Wrapped =>
    /\ ~(HandlerInvoked /\ ErrorEmitted)
    /\ NoFault => (HandlerInvoked \/ ErrorEmitted) /\ ~call.threw
    /\ ~NoFault => ~HandlerInvoked /\ ~ErrorEmitted /\ call.threw
    /\ Len(call.handlerCalls) <= 1

C1_Witness ==
  /\ Wrapped /\ Target.op = "Check"
  /\ SomePartFails /\ NoFault
  /\ ErrorEmitted /\ ~HandlerInvoked

(***************************************************************************)
(* C2                                                                      *)
(***************************************************************************)

\* C2: when every part that has a schema satisfies it, the wrapped handler
\* (wrapping forms) or next (middleware forms) is invoked exactly once, the
\* adapter calls neither res.status nor res.send, and errorHandler is not
\* invoked.
C2_SuccessDispatchesOnce ==
  (Called /\ AllSatisfied) =>
    /\ ~ResponseWritten
    /\ call.errorHandlerCalls = <<>>
    /\ ~call.threw
    /\ Target.op \in WrappingOps => call.handlerCalls = TheHandlerCall /\ call.nextCalls = 0
    /\ Target.op \in MiddlewareOps => call.nextCalls = 1 /\ call.handlerCalls = <<>>

C2_Witness ==
  /\ Middleware /\ Target.op = "zem.Check"
  /\ Supplied("body") /\ Supplied("query") /\ ~Supplied("params")
  /\ AllSatisfied
  /\ call.nextCalls = 1

(***************************************************************************)
(* C3                                                                      *)
(***************************************************************************)

WithErrorCode(c, ec) == [c EXCEPT !.config.errorCode = ec]

CheckLike == Called /\ Target.op \in {"Check", "zem.Check"}

\* The call reported exactly this failure: as the body of the default
\* response, or as the argument of errorHandler.
Reported(error) ==
  IF Target.config.errorHandler = Undefined
  THEN call.send = <<error.errors[1]>> /\ call.errorHandlerCalls = <<>>
  ELSE /\ call.send = <<>>
       /\ Len(call.errorHandlerCalls) = 1
       /\ call.errorHandlerCalls[1].error = error

Range(seq) == {seq[i] : i \in 1..Len(seq)}

\* The supplied parts up to and including the first whose schema throws.
ParsedUntilFault ==
  LET firstThrow == CHOOSE i \in 1..3 :
                      Answer(Parts[i]).threw /\ \A j \in 1..(i - 1) : ~Answer(Parts[j]).threw
  IN  SelectSeq(SubSeq(Parts, 1, firstThrow), Supplied)

\* C6 (as stated): in Check (zem.Check) a failing part short-circuits: the
\* schemas of the later parts are not asked to parse anything in that call.
C6_LaterPartsNotParsed ==
  CheckLike =>
    /\ Fails("body") => "params" \notin Range(call.parsed) /\ "query" \notin Range(call.parsed)
    /\ Fails("params") => "query" \notin Range(call.parsed)

\* C6 (amended): Check (zem.Check) asks every supplied schema to parse, in the
\* order body, params, query, before it looks at any result; a failing part
\* does not keep the later schemas from being evaluated (only a schema that
\* throws ends the call), and the first failure in that order decides alone
\* what is reported.
C6_AllSuppliedPartsParsed ==
  CheckLike =>
    /\ NoFault => call.parsed = SuppliedParts
    /\ ~NoFault => call.parsed = ParsedUntilFault /\ call.threw
    /\ (SomePartFails /\ NoFault) => Reported(FirstFailure)

C6_Witness ==
  /\ CheckLike
  /\ Fails("body") /\ Supplied("params") /\ Supplied("query")
  /\ call.parsed = <<"body", "params", "query">>
  /\ Reported(Answer("body").error)

(***************************************************************************)
(* C7                                                                      *)
(***************************************************************************)

\* C7: Check({}, handler, options) invokes the handler for every request,
\* whatever its body, params and query and whatever the options, and emits no
\* error.
C7_NoSchemasAlwaysHandler ==
  (Wrapped /\ Target.op = "Check" /\ Target.schemas = NoSchemas) =>
    /\ call.handlerCalls = TheHandlerCall
    /\ ~ErrorEmitted
    /\ ~call.threw
    /\ call.parsed = <<>>

C7_Witness ==
  /\ Wrapped /\ Target.op = "Check" /\ Target.schemas = NoSchemas
  /\ Target.config = [errorCode |-> {400}, errorHandler |-> "errorHandler"]
  /\ req.body = "" /\ req.params = "abc"
  /\ HandlerInvoked

(***************************************************************************)
(* C8                                                                      *)
(***************************************************************************)

\* Two requests agree on every part for which the target has a schema.
AgreeOnSupplied(r1, r2) ==
  \A i \in 1..3 : Supplied(Parts[i]) => r1[Parts[i]] = r2[Parts[i]]

\* C8: the outcome of a call depends only on the request parts that have a
\* schema: any request that agrees with the served one on those parts gets
\* the same outcome from the same closure (CheckBody ignores params and query,
\* CheckParams body and query, CheckQuery body and params, Check the parts its
\* spec leaves out).
C8_OnlySuppliedPartsMatter ==
  Called =>
    \A r2 \in Requests(req.id) :
      AgreeOnSupplied(req, r2) => Outcome(Apply(Target, r2)) = Outcome(call)

C8_Witness ==
  /\ Wrapped /\ Target.op = "Check"
  /\ ~Supplied("body") /\ ~Supplied("params") /\ Target.schemas.query = "numeric"
  /\ req.body = "" /\ req.params = "abc" /\ req.query = "42"
  /\ HandlerInvoked

(***************************************************************************)
(* C9                                                                      *)
(***************************************************************************)

\* The wrapping operation that corresponds to a middleware closure.
WrappingOf(c) ==
  [c EXCEPT
     !.op = CASE c.op = "zem.Body" -> "CheckBody"
              [] c.op = "zem.Params" -> "CheckParams"
              [] c.op = "zem.Query" -> "CheckQuery"
              [] c.op = "zem.Check" -> "Check",
     !.handler = Fn("handler")]

\* C9: a middleware (zem.Body, zem.Params, zem.Query, zem.Check) never calls
\* next when validation fails, and then emits exactly what the corresponding
\* CheckBody, CheckParams, CheckQuery or Check emits for the same request,
\* schemas and options; on success it calls next and writes nothing to the
\* response.
C9_MiddlewareMatchesWrapping ==
  Middleware =>
    LET w == Apply(WrappingOf(Target), req) IN
    /\ call.status = w.status
    /\ call.send = w.send
    /\ call.errorHandlerCalls = w.errorHandlerCalls
    /\ call.threw = w.threw
    /\ call.parsed = w.parsed
    /\ call.handlerCalls = <<>>
    /\ NextInvoked <=> w.handlerCalls # <<>>
    /\ SomePartFails => ~NextInvoked
    /\ AllSatisfied => call.nextCalls = 1 /\ ~ErrorEmitted

C9_Witness ==
  /\ Middleware /\ Target.op = "zem.Body"
  /\ Fails("body")
  /\ ~NextInvoked
  /\ call.status = <<DefaultErrorCode>>

(***************************************************************************)
(* C10                                                                     *)
(***************************************************************************)

\* C10: a method decorated with ValidateBody, ValidateParams, ValidateQuery
\* or Validate, called with a request whose designated part fails its schema,
\* never runs the original method, whatever the options.
C10_OriginalNotRunOnFailure ==
  (Decorated /\ SomePartFails) =>
    /\ call.handlerCalls = <<>>
    /\ Target.handler = Fn("original")

C10_Witness ==
  /\ Decorated /\ Target.op = "CheckBody"
  /\ Target.handler = Fn("original")
  /\ Fails("body")
  /\ call.handlerCalls = <<>>
  /\ ErrorEmitted

(***************************************************************************)
(* C11                                                                     *)
(***************************************************************************)

\* What wrapping the original method by hand gives for a decoration.
ManualWrap(d) ==
  CASE d.name = "ValidateBody" -> CheckBody(d.schemas.body, Fn("original"), d.config)
    [] d.name = "ValidateParams" -> CheckParams(d.schemas.params, Fn("original"), d.config)
    [] d.name = "ValidateQuery" -> CheckQuery(d.schemas.query, Fn("original"), d.config)
    [] d.name = "Validate" -> Check(d.schemas, Fn("original"), d.config)

\* C11: a decorator replaces the method's function value once, when the class
\* is defined, by CheckBody/CheckParams/CheckQuery/Check(schema, original,
\* options); from then on the value stays that one wrapper (calls do not wrap
\* again) and every call behaves as the manually wrapped function does.
C11_DecoratorIsManualWrap ==
  /\ decoration.name = "none" => descriptor.value = Fn("original")
  /\ decoration.name # "none" =>
       /\ descriptor.value = ManualWrap(decoration)
       /\ descriptor.value.handler = Fn("original")
       /\ Called => call = Apply(ManualWrap(decoration), req)

C11_Witness ==
  /\ decoration.name = "ValidateParams"
  /\ descriptor.value.op = "CheckParams"
  /\ served = MaxRequests
  /\ Called

(***************************************************************************)
(* C12                                                                     *)
(***************************************************************************)

\* C12: when every designated part validates, the endpoint made by CheckBody,
\* CheckParams, CheckQuery or Check returns exactly what the wrapped handler
\* returned for that request (a promise that is still pending when the handler
\* is async), and writes nothing to the response itself.
C12_ReturnsHandlerResult ==
  (Wrapped /\ AllSatisfied) =>
    /\ call.handlerCalls = TheHandlerCall
    /\ call.returned = HandlerReturn(Target.handler, req)
    /\ call.returned.fn = Target.handler.name /\ call.returned.req = req.id
    /\ call.returned.promise <=> IsAsync(Target.handler)
    /\ ~ResponseWritten

C12_Witness ==
  /\ Wrapped /\ Target.op = "CheckQuery"
  /\ AllSatisfied
  /\ IsAsync(Target.handler)
  /\ call.returned.kind = "handler result" /\ call.returned.promise

(***************************************************************************)
(* C13                                                                     *)
(***************************************************************************)

\* C13: no adapter operation changes the raw body, params or query of the
\* request: a call, successful or not, assigns nothing to the request, and
\* the handler (and errorHandler) is given the request as it was received.
C13_RequestNotMutated ==
  Called =>
    /\ call.reqWrites = <<>>
    /\ req \in Requests(served)
    /\ \A i \in 1..Len(call.handlerCalls) : call.handlerCalls[i].req = req
    /\ \A i \in 1..Len(call.errorHandlerCalls) : call.errorHandlerCalls[i].req = req
    /\ (Target.op \in WrappingOps /\ AllSatisfied) => Len(call.handlerCalls) = 1

C13_Witness ==
  /\ Wrapped /\ Target.op = "CheckBody" /\ Target.schemas.body = "json"
  /\ req.body = "42"
  /\ Answer("body").data # req.body
  /\ Len(call.handlerCalls) = 1 /\ call.handlerCalls[1].req.body = "42"

(***************************************************************************)
(* C14                                                                     *)
(***************************************************************************)

\* A parameter value passed validation by CheckParams.
ParamsAccepted ==
  Wrapped /\ Target.op = "CheckParams" /\ AllSatisfied /\ Len(call.handlerCalls) = 1

\* C14 (as stated): after a successful CheckParams validation of a value such
\* as "42", the handler receives the original string when the schema does not
\* coerce, and the coerced value the schema produced when it does.
C14_HandlerReceivesSchemaOutput ==
  ParamsAccepted => call.handlerCalls[1].req.params = Answer("params").data

\* C14 (amended): after a successful CheckParams validation the handler
\* receives the original string whether or not the schema coerces: the adapter
\* hands the request on as received and drops the value the schema produced;
\* it neither re-derives nor overrides anything in the request.
C14_HandlerReceivesOriginal ==
  ParamsAccepted =>
    /\ call.handlerCalls[1].req.params = req.params
    /\ call.handlerCalls[1].req.params \in RawValues
    /\ call.reqWrites = <<>>

C14_Witness ==
  /\ ParamsAccepted
  /\ Target.schemas.params = "json" /\ req.params = "42"
  /\ Answer("params").data = "#42"
  /\ call.handlerCalls[1].req.params = "42"

(***************************************************************************)
(* C15                                                                     *)
(***************************************************************************)

\* C15: a validation failure is a result value and never leaves the adapter
\* as an exception, whereas an exception raised by a schema while parsing is
\* caught by no adapter operation: it leaves the call, and in that call
\* neither the handler (or next) is invoked nor an error emitted.
C15_FaultsPropagateFailuresDoNot ==
  Called =>
    /\ call.threw <=> ~NoFault
    /\ call.threw =>
         /\ ~HandlerInvoked /\ ~NextInvoked /\ ~ErrorEmitted
         /\ call.returned = Returned("exception")
    /\ (SomePartFails /\ NoFault) => ~call.threw /\ ErrorEmitted

C15_Witness ==
  /\ Called /\ Target.op = "CheckBody"
  /\ Answer("body").threw
  /\ call.threw
  /\ ~HandlerInvoked /\ ~ErrorEmitted

(***************************************************************************)
(* C17                                                                     *)
(***************************************************************************)

\* The spec of the target holds a schema for this part and for no other.
OnlySupplied(part) ==
  \A i \in 1..3 : Supplied(Parts[i]) <=> Parts[i] = part

\* The single-part operation given the one schema of a Check closure.
SinglePartOf(c) ==
  CASE c.schemas.body # NoSchema -> CheckBody(c.schemas.body, c.handler, c.config)
    [] c.schemas.params # NoSchema -> CheckParams(c.schemas.params, c.handler, c.config)
    [] c.schemas.query # NoSchema -> CheckQuery(c.schemas.query, c.handler, c.config)

\* C17: Check with a spec that holds one schema behaves as the single-part
\* operation for that part: for every request, handler and options the call
\* of Check({body: s}, h, o) does what the call of CheckBody(s, h, o) does
\* (same handler call and return value, or same status and body, or same
\* errorHandler call), and likewise for params and query.
C17_SingleSchemaCheckMatches ==
  Wrapped =>
    /\ Target.op \in {"CheckBody", "CheckParams", "CheckQuery"} =>
         Apply(Check(Target.schemas, Target.handler, Target.config), req) = call
    /\ (Target.op = "Check" /\ \E i \in 1..3 : OnlySupplied(Parts[i])) =>
         Apply(SinglePartOf(Target), req) = call

C17_Witness ==
  /\ Wrapped /\ Target.op = "Check"
  /\ OnlySupplied("params")
  /\ Fails("params")
  /\ Apply(SinglePartOf(Target), req).send = call.send
  /\ call.send # <<>>

(***************************************************************************)
(* C16                                                                     *)
(***************************************************************************)

\* The call of one pair did what the route does for that pair's own request,
\* and every callback it made got that pair's request and response.
OwnOutcome(id) ==
  LET p == pairs[id] IN
  /\ p.req.id = id
  /\ p.call = Apply(route, p.req)
  /\ \A i \in 1..Len(p.call.handlerCalls) :
       p.call.handlerCalls[i].req = p.req /\ p.call.handlerCalls[i].res = id
  /\ \A i \in 1..Len(p.call.errorHandlerCalls) :
       p.call.errorHandlerCalls[i].req = p.req /\ p.call.errorHandlerCalls[i].res = id

\* C16: calls of the same endpoint or middleware are isolated under every
\* interleaving, also while handlers of earlier requests are still pending:
\* what a call does is determined by its own request and the schemas and
\* options given at registration, it is written to its own response only, and
\* no later call or settling handler changes what an earlier call did.
C16_CallsIsolated ==
  /\ [](\A id \in 1..Len(pairs) : OwnOutcome(id))
  /\ [][\A id \in 1..Len(pairs) : Len(pairs') >= id /\ pairs'[id] = pairs[id]]_vars

C16_Witness ==
  /\ Len(pairs) = 2
  /\ 1 \in inflight
  /\ pairs[1].call.handlerCalls # <<>>
  /\ pairs[2].call.send # <<>>
  /\ pairs[1].req.body # pairs[2].req.body
  /\ pairs[1].call.status = <<>>

(***************************************************************************)
(* C18                                                                     *)
(***************************************************************************)

ChainServed == served > 0 /\ stack # <<>>

Positions == 1..Len(stack)

\* The part of the request the middleware at a position validates.
ChainPart(i) == CHOOSE p \in {"body", "params", "query"} : stack[i].schemas[p] # NoSchema

\* What the schema of the middleware at a position answers on the request.
ChainAnswer(i) == safeParse(stack[i].schemas[ChainPart(i)], req[ChainPart(i)])

ValidatesAt(i) == ~ChainAnswer(i).threw /\ ChainAnswer(i).success

FailsAt(i) == ~ChainAnswer(i).threw /\ ~ChainAnswer(i).success

ThrowsAt(i) == ChainAnswer(i).threw

RanAt(i) == i <= Len(chainCalls)

EmittedAt(i) ==
  RanAt(i) /\ (chainCalls[i].send # <<>> \/ chainCalls[i].errorHandlerCalls # <<>>)

\* The middleware at a position emitted the failure of its own part, once.
EmittedOwnError(i) ==
  /\ RanAt(i)
  /\ IF stack[i].config.errorHandler = Undefined
     THEN /\ chainCalls[i].send = <<getError(ChainAnswer(i).error)>>
          /\ chainCalls[i].errorHandlerCalls = <<>>
     ELSE /\ chainCalls[i].send = <<>>
          /\ Len(chainCalls[i].errorHandlerCalls) = 1
          /\ chainCalls[i].errorHandlerCalls[1].error = ChainAnswer(i).error

\* Nothing after this position ran: no later middleware and not the handler.
ChainStoppedAt(i) == Len(chainCalls) = i /\ finalCalls = <<>>

\* What holds of a chain whatever its schemas do.
ChainSafe ==
  /\ finalCalls # <<>> => \A i \in Positions : ValidatesAt(i)
  /\ Cardinality({i \in Positions : EmittedAt(i)}) <= 1
  /\ \A i \in Positions :
       EmittedAt(i) =>
         /\ FailsAt(i)
         /\ \A j \in 1..(i - 1) : ValidatesAt(j)
         /\ EmittedOwnError(i)
         /\ ChainStoppedAt(i)

\* C18 (as stated): with validating middlewares chained before a handler the
\* handler is reached only if every middleware's part validates; the first
\* middleware whose part fails emits its error and stops the chain, so at most
\* one error is emitted per request and no later middleware or handler runs.
C18_FirstFailingEmits ==
  ChainServed =>
    /\ ChainSafe
    /\ \A i \in Positions :
         (FailsAt(i) /\ \A j \in 1..(i - 1) : ~FailsAt(j)) =>
           EmittedOwnError(i) /\ ChainStoppedAt(i)

\* C18 (amended): the handler is reached only if every middleware's part
\* validates, at most one error is emitted per request, the middleware that
\* emits is the first whose part fails and nothing after it runs; the first
\* failing middleware does emit provided every middleware before it
\* validated. When the schema of an earlier middleware throws, the exception
\* ends the chain there: no middleware emits and the handler is not reached.
C18_FirstFailingEmitsUnlessFault ==
  ChainServed =>
    /\ ChainSafe
    /\ \A i \in Positions :
         (FailsAt(i) /\ \A j \in 1..(i - 1) : ValidatesAt(j)) =>
           EmittedOwnError(i) /\ ChainStoppedAt(i)
    /\ \A i \in Positions :
         (ThrowsAt(i) /\ \A j \in 1..(i - 1) : ValidatesAt(j)) =>
           /\ ChainStoppedAt(i)
           /\ \A k \in Positions : ~EmittedAt(k)

C18_Witness ==
  /\ ChainServed
  /\ Len(stack) = 2
  /\ stack[1].op = "zem.Body" /\ stack[2].op = "zem.Params"
  /\ FailsAt(1) /\ FailsAt(2)
  /\ EmittedOwnError(1)
  /\ ChainStoppedAt(1)
====
